---- MODULE Spec2Model ----
(***************************************************************************)
(* Model of estimate_specific_surface_from_gs_stats.ipynb: the grain-size  *)
(* distribution discretizer (generate_gs_distributions), the specific      *)
(* surface integrator (calculate_specific_surface_discrete) and the        *)
(* per-row loop of the notebook that applies both to every row of df.      *)
(*                                                                         *)
(* Number representation.  The notebook computes in float64; the model     *)
(* computes in fixed point:                                                *)
(*   - a linear grain size is an integer count of SizeUnit-s, where        *)
(*     10^AxisLow metres = 2 * Scale units (so that every midpoint of two  *)
(*     grid values is again an integer);                                   *)
(*   - a log10 grain size is an integer count of 1/LogUnit decades;        *)
(*   - a probability is an integer count of 1/PhiScale;                    *)
(*   - a quotient mass/size is an integer count of 1/DivScale, rounded     *)
(*     down per element as the float quotient is rounded per element;      *)
(*   - the specific surface is an exact fraction [num, den] in lowest      *)
(*     terms; the float nan is the fraction 0/0 and the mass NaN.          *)
(***************************************************************************)
EXTENDS Integers, Sequences, FiniteSets, TLC

(* ---------------------------------------------------------------------- *)
(* Bounds of the model                                                    *)
(* ---------------------------------------------------------------------- *)

\* grid points per decade of the log10 axis (the notebook's step 0.01 is 100)
StepsPerDecade == 1

\* largest number of rows of the input dataset
MaxRows == 3

(* ---------------------------------------------------------------------- *)
(* Constants of the notebook and of the number representation             *)
(* ---------------------------------------------------------------------- *)

\* np.arange(-7.0, -1, 0.01): the axis in log10(metres)
AxisLow == -7
AxisHigh == -1

\* grid points per decade in the notebook itself (step 0.01)
NotebookStepsPerDecade == 100

\* fixed-point resolutions
Scale == 10
LogUnit == 12
PhiScale == 1000
DivScale == 2000000
ZRes == 2
ZMax == 8

\* the float nan: a mass fraction returned by scipy.stats.norm.cdf with
\* scale <= 0 or a nan argument, and an empty cell as pd.read_csv reads it
NaN == -1

\* a cell of the csv file that is not a number, read as a str
NonNumeric == -2

\* the float nan as a specific surface
NaNss == [num |-> 0, den |-> 0]

\* the literal 2e-6 (metres) of "freq_gs[bins_gs < 2e-6] = 0", in size units:
\* 2e-6 m = 20 * 10^AxisLow m = 20 * (2 * Scale) units
ClayLiteral == 40 * Scale

\* name of the column the loop writes
ss_column == "specific_surface_granular_fraction"

\* header of the index column df.to_csv writes (index_label=None)
index_label == ""

(* ---------------------------------------------------------------------- *)
(* State of the notebook                                                  *)
(* ---------------------------------------------------------------------- *)

VARIABLES
    rho_s,          \* density of the solid matrix
    clay_cutoff,    \* configured clay cutoff, in size units
    log_transform,  \* normal (FALSE) or log-normal (TRUE)
    df,             \* the rows of the dataset, one record per row
    df_columns,     \* the column names of the dataset, in order
    gs_freq_all,    \* the list of collected mass vectors
    bins_gs,        \* last sizes returned by the discretizer
    freq_gs,        \* last masses returned by the discretizer
    ix,             \* position of the loop in df.index (1-based)
    pc,             \* "discretize", "integrate", "save", "done", "error"
    csv_out         \* what df.to_csv wrote

vars == << rho_s, clay_cutoff, log_transform, df, df_columns, gs_freq_all,
           bins_gs, freq_gs, ix, pc, csv_out >>

(* ---------------------------------------------------------------------- *)
(* Arithmetic helpers                                                     *)
(* ---------------------------------------------------------------------- *)

RECURSIVE Pow(_, _)
Pow(b, e) == IF e = 0 THEN 1 ELSE b * Pow(b, e - 1)

RECURSIVE GCD(_, _)
GCD(a, b) == IF b = 0 THEN a ELSE GCD(b, a % b)

\* an exact fraction in lowest terms (den > 0)
Rat(n, d) == LET g == GCD(n, d) IN
             IF g = 0 THEN NaNss ELSE [num |-> n \div g, den |-> d \div g]

\* 10^(j / StepsPerDecade) for 0 <= j < StepsPerDecade, in 1/Scale, rounded down
FracRoot ==
    [j \in 0 .. StepsPerDecade - 1 |->
        CHOOSE r \in Scale .. 10 * Scale :
            /\ Pow(r, StepsPerDecade) <= Pow(10, j) * Pow(Scale, StepsPerDecade)
            /\ Pow(r + 1, StepsPerDecade) > Pow(10, j) * Pow(Scale, StepsPerDecade)]

\* 10**x: a log10 grain size x (1/LogUnit decades, on the grid) in size units
Pow10(x) ==
    LET e == x - AxisLow * LogUnit
        d == e \div LogUnit
        j == (e % LogUnit) \div (LogUnit \div StepsPerDecade)
    IN  2 * FracRoot[j] * Pow(10, d)

(* ---------------------------------------------------------------------- *)
(* Library functions used by the notebook                                 *)
(* ---------------------------------------------------------------------- *)

\* np.arange(start, stop, step): ceil((stop - start) / step) values
\* start, start + step, ..., all strictly below stop
arange_len(start, stop, step) ==
    IF stop <= start THEN 0 ELSE (stop - start + step - 1) \div step

arange(start, stop, step) ==
    [i \in 1 .. arange_len(start, stop, step) |-> start + (i - 1) * step]

\* the standard normal CDF at z = k / ZRes, k = -ZMax .. ZMax, in 1/PhiScale
PhiTable ==
    << 0, 0, 1, 6, 23, 67, 159, 309, 500,
       691, 841, 933, 977, 994, 999, 1000, 1000 >>

\* scipy.stats.norm.cdf(x, loc, scale) for one x: nan when scale <= 0,
\* saturating at 0 and 1 in the tails as the float result does
norm_cdf1(x, loc, scale) ==
    IF scale <= 0 \/ loc = NaN THEN NaN
    ELSE LET z  == ((x - loc) * ZRes) \div scale
             zc == IF z < -ZMax THEN -ZMax ELSE IF z > ZMax THEN ZMax ELSE z
         IN  PhiTable[zc + ZMax + 1]

\* scipy.stats.norm.cdf on an array
norm_cdf(xs, loc, scale) ==
    [i \in 1 .. Len(xs) |-> norm_cdf1(xs[i], loc, scale)]

\* float subtraction, addition and division with nan propagation
fsub(a, b) == IF a = NaN \/ b = NaN THEN NaN ELSE a - b
fdiv(f, g) == IF f = NaN THEN NaN ELSE (f * DivScale) \div g

\* a[:-1]
Front(a) == SubSeq(a, 1, Len(a) - 1)

(* ---------------------------------------------------------------------- *)
(* generate_gs_distributions                                              *)
(* ---------------------------------------------------------------------- *)

\* the log10 grid np.arange(-7.0, -1, 0.01)
log_grid == arange(AxisLow * LogUnit, AxisHigh * LogUnit,
                   LogUnit \div StepsPerDecade)

\* 10**np.arange(-7.0, -1, 0.01)
pow10_grid == [i \in 1 .. Len(log_grid) |-> Pow10(log_grid[i])]

\* "grain size bins": gs_sim, on the log10 axis or exponentiated
gs_sim(log_transform_) == IF log_transform_ THEN log_grid ELSE pow10_grid

\* variant: the differences taken in a loop over the array being overwritten,
\* freq[i] = cdf[i] - freq[i-1]
RECURSIVE in_place_difference(_, _)
in_place_difference(cdf, n) ==
    IF n = 0 THEN << >>
    ELSE IF n = 1 THEN << cdf[1] >>
    ELSE LET prev == in_place_difference(cdf, n - 1)
         IN  Append(prev, fsub(cdf[n], prev[n - 1]))

convert_to_frequency_in_place(cdf) == in_place_difference(cdf, Len(cdf))

\* variant: the difference taken the wrong way round, cdf[:-1] - cdf[1:]
convert_to_frequency_reversed(cdf) ==
    IF Len(cdf) = 0 THEN cdf
    ELSE LET hi == Tail(cdf)
             lo == SubSeq(cdf, 1, Len(cdf) - 1)
         IN  << cdf[1] >> \o [i \in 1 .. Len(hi) |-> fsub(lo[i], hi[i])]

\* "convert to frequency for each bin":
\* freq_gs = cdf_gs.copy(); freq_gs[1:] = cdf_gs[1:] - cdf_gs[:-1]
convert_to_frequency(cdf) ==
    IF Len(cdf) = 0 THEN cdf
    ELSE LET hi == Tail(cdf)
             lo == Front(cdf)
         IN  << cdf[1] >> \o [i \in 1 .. Len(hi) |-> fsub(hi[i], lo[i])]

\* variant: the sizes are left on the axis the CDF was evaluated on
real_units_left_on_axis(sim, log_transform_) == sim

\* "convert grainsize to real units"
real_units(sim, log_transform_) ==
    IF log_transform_ THEN [i \in 1 .. Len(sim) |-> Pow10(sim[i])]
    ELSE sim

\* variant: the midpoints taken in a loop over the array being overwritten,
\* so that each uses the already midpointed left neighbour
RECURSIVE in_place_middle(_, _)
in_place_middle(bins, n) ==
    IF n = 0 THEN << >>
    ELSE IF n = 1 THEN << bins[1] >>
    ELSE LET prev == in_place_middle(bins, n - 1)
         IN  Append(prev, (bins[n] + prev[n - 1]) \div 2)

middle_of_bin_in_place(bins) == in_place_middle(bins, Len(bins))

\* "take middle of bin": bins_gs[1:] = (bins_gs[1:] + bins_gs[:-1]) / 2.0
\* (the right-hand side is evaluated in full before the assignment)
middle_of_bin(bins) ==
    IF Len(bins) = 0 THEN bins
    ELSE LET hi == Tail(bins)
             lo == Front(bins)
         IN  << bins[1] >> \o [i \in 1 .. Len(hi) |-> (hi[i] + lo[i]) \div 2]

\* variant: the clay bins are dropped from the array instead of zeroed,
\* freq_gs = freq_gs[bins_gs >= 2e-6]
remove_clay_dropping(bins, freq, clay_cutoff_) ==
    LET n == Cardinality({i \in 1 .. Len(freq) : bins[i] < ClayLiteral})
    IN  SubSeq(freq, n + 1, Len(freq))

\* variant: the comparison is the wrong way round, freq_gs[bins_gs > 2e-6] = 0
remove_clay_reversed(bins, freq, clay_cutoff_) ==
    [i \in 1 .. Len(freq) |-> IF bins[i] > ClayLiteral THEN 0 ELSE freq[i]]

\* "remove clay fraction": freq_gs[bins_gs < 2e-6] = 0
remove_clay(bins, freq, clay_cutoff_) ==
    [i \in 1 .. Len(freq) |-> IF bins[i] < ClayLiteral THEN 0 ELSE freq[i]]

\* variant: "log_transform is True" never holds (the flag is not the bool
\* True itself), so the linear branch is taken in both modes
generate_gs_distributions_always_linear(gs_mean, gs_std, rho_s_, clay_cutoff_, log_transform_) ==
    LET sim  == gs_sim(FALSE)
        cdf  == norm_cdf(sim, gs_mean, gs_std)
        freq == convert_to_frequency(cdf)
        bins == middle_of_bin(real_units(sim, FALSE))
    IN  [bins_gs |-> bins, freq_gs |-> remove_clay(bins, freq, clay_cutoff_)]

\* variant: the grid is built once and shared by the calls; in linear mode
\* bins_gs is the same array as gs_sim, so the next call starts from the
\* midpointed grid of the previous one
generate_gs_distributions_shared_grid(gs_mean, gs_std, rho_s_, clay_cutoff_, log_transform_) ==
    LET sim  == IF ~log_transform_ /\ Len(bins_gs) > 0
                THEN bins_gs ELSE gs_sim(log_transform_)
        cdf  == norm_cdf(sim, gs_mean, gs_std)
        freq == convert_to_frequency(cdf)
        bins == middle_of_bin(real_units(sim, log_transform_))
    IN  [bins_gs |-> bins, freq_gs |-> remove_clay(bins, freq, clay_cutoff_)]

generate_gs_distributions(gs_mean, gs_std, rho_s_, clay_cutoff_, log_transform_) ==
    LET sim  == gs_sim(log_transform_)
        cdf  == norm_cdf(sim, gs_mean, gs_std)
        freq == convert_to_frequency(cdf)
        bins == middle_of_bin(real_units(sim, log_transform_))
    IN  [bins_gs |-> bins, freq_gs |-> remove_clay(bins, freq, clay_cutoff_)]

(* ---------------------------------------------------------------------- *)
(* calculate_specific_surface_discrete                                    *)
(* ---------------------------------------------------------------------- *)

\* ndarray.sum(): nan as soon as one element is nan
RECURSIVE array_sum(_)
array_sum(a) ==
    IF Len(a) = 0 THEN 0
    ELSE LET rest == array_sum(Tail(a)) IN
         IF a[1] = NaN \/ rest = NaN THEN NaN ELSE a[1] + rest

\* variant: the last bin is left out of the sum
calculate_specific_surface_discrete_skip_last(grain_size, freq, rho_s_) ==
    LET quot == [i \in 1 .. Len(freq) - 1 |-> fdiv(freq[i], grain_size[i])]
        s    == array_sum(quot)
    IN  IF s = NaN THEN NaNss ELSE Rat(6 * s, rho_s_)

\* variant: the default density 2650.0 is used instead of the argument
calculate_specific_surface_discrete_fixed_density(grain_size, freq, rho_s_) ==
    LET quot == [i \in 1 .. Len(freq) |-> fdiv(freq[i], grain_size[i])]
        s    == array_sum(quot)
    IN  IF s = NaN THEN NaNss ELSE Rat(6 * s, 2650)

\* ss = 6.0 / rho_s * (freq / grain_size).sum(), in units of 1/DivScale
calculate_specific_surface_discrete(grain_size, freq, rho_s_) ==
    LET quot == [i \in 1 .. Len(freq) |-> fdiv(freq[i], grain_size[i])]
        s    == array_sum(quot)
    IN  IF s = NaN THEN NaNss ELSE Rat(6 * s, rho_s_)

(* ---------------------------------------------------------------------- *)
(* The notebook: configuration cell, read_csv, the per-row loop, to_csv   *)
(* ---------------------------------------------------------------------- *)

\* values of rho_s, clay_cutoff, mean and stdev the runs are drawn from
Densities == {2650, 5300}

\* 5 nm ("towards 0"), 10 um, 200 mm
Cutoffs == {1, 200 * Scale, 4000000 * Scale}

\* the (mean, stdev) pairs of the rows.  Linear mode: mean 0.1 um, 10 um,
\* 10 mm with stdev 0.2 um or 20 um.  Log mode: mean 10^-7, 10^-5, 10^-2 m
\* with stdev 1/12 decade or 1 decade.  One row has the invalid stdev 0,
\* one an empty mean cell, one a mean that is not a number.
LinStats ==
    { << 2 * Scale, 4 * Scale >>, << 200 * Scale, 4 * Scale >>,
      << 2 * Scale, 400 * Scale >>, << 200000 * Scale, 400 * Scale >>,
      << 200 * Scale, 0 >>, << NaN, 4 * Scale >>,
      << NonNumeric, 4 * Scale >> }

LogStats ==
    { << -7 * LogUnit, 1 >>, << -5 * LogUnit, 1 >>,
      << -7 * LogUnit, LogUnit >>, << -2 * LogUnit, LogUnit >>,
      << -5 * LogUnit, 0 >>, << NaN, 1 >>,
      << NonNumeric, 1 >> }

Stats(lt) == IF lt THEN LogStats ELSE LinStats

gs_mean_column == "grain_size_mean"
gs_std_column == "grain_size_stdev"

Rows(lt) ==
    { [grain_size_mean |-> p[1], grain_size_stdev |-> p[2]] : p \in Stats(lt) }

\* the columns a csv file may have: both required columns, or one of them
ColumnSets ==
    { << gs_mean_column, gs_std_column >>,
      << gs_mean_column >>, << gs_std_column >> }

\* the columns named in the sequence cols, as a set
ColumnSet(cols) == { cols[i] : i \in 1 .. Len(cols) }

\* a row of a file that has only the columns cols
RowOf(r, cols) == [c \in ColumnSet(cols) |-> r[c]]

\* pd.read_csv infers one dtype per column: a column with a cell that is
\* not a number is an object column, and every cell of it is read as a str
is_object_column(d, col) == \E k \in 1 .. Len(d) : d[k][col] = NonNumeric

\* the per-row loop raises in its first iteration: KeyError from
\* df.loc[ix, column] when the column is missing, TypeError from
\* scipy.stats.norm.cdf when mean or stdev is a str
loop_raises ==
    IF \/ gs_mean_column \notin ColumnSet(df_columns)
       \/ gs_std_column \notin ColumnSet(df_columns)
    THEN TRUE
    ELSE \/ is_object_column(df, gs_mean_column)
         \/ is_object_column(df, gs_std_column)

\* variant: df[col] = v, which sets the value on every row of the column
df_loc_set_whole_column(d, i, v) ==
    [k \in 1 .. Len(d) |->
        [grain_size_mean |-> d[k].grain_size_mean,
         grain_size_stdev |-> d[k].grain_size_stdev,
         specific_surface_granular_fraction |-> v]]

\* df.loc[i, col] = v: creates the column (nan elsewhere) when it is missing
df_loc_set(d, i, v) ==
    [k \in 1 .. Len(d) |->
        [grain_size_mean |-> d[k].grain_size_mean,
         grain_size_stdev |-> d[k].grain_size_stdev,
         specific_surface_granular_fraction |->
            IF k = i THEN v
            ELSE IF ss_column \in DOMAIN d[k]
                 THEN d[k].specific_surface_granular_fraction
                 ELSE NaNss]]

Init ==
    /\ rho_s \in Densities
    /\ clay_cutoff \in Cutoffs
    /\ log_transform \in BOOLEAN
    /\ df_columns \in ColumnSets
    /\ \E n \in 0 .. MaxRows :
          df \in [1 .. n -> { RowOf(r, df_columns) : r \in Rows(log_transform) }]
    /\ gs_freq_all = << >>
    /\ bins_gs = << >>
    /\ freq_gs = << >>
    /\ ix = 1
    /\ pc = IF Len(df) = 0 THEN "save" ELSE "discretize"
    /\ csv_out = [written |-> FALSE, columns |-> << >>, rows |-> << >>]

\* bins_gs, freq_gs = generate_gs_distributions(...); gs_freq_all.append(freq_gs)
Discretize ==
    /\ pc = "discretize"
    /\ ~loop_raises
    /\ LET r == generate_gs_distributions(df[ix].grain_size_mean,
                                          df[ix].grain_size_stdev,
                                          rho_s, clay_cutoff, log_transform)
       IN  /\ bins_gs' = r.bins_gs
           /\ freq_gs' = r.freq_gs
           /\ gs_freq_all' = Append(gs_freq_all, r.freq_gs)
    /\ pc' = "integrate"
    /\ UNCHANGED << rho_s, clay_cutoff, log_transform, df, df_columns, ix, csv_out >>

\* df.loc[ix, 'specific_surface_granular_fraction'] =
\*     calculate_specific_surface_discrete(bins_gs, freq_gs, rho_s)
Integrate ==
    /\ pc = "integrate"
    /\ df' = df_loc_set(df, ix,
                 calculate_specific_surface_discrete(bins_gs, freq_gs, rho_s))
    /\ df_columns' = IF \E k \in 1 .. Len(df_columns) : df_columns[k] = ss_column
                     THEN df_columns
                     ELSE Append(df_columns, ss_column)
    /\ IF ix < Len(df)
       THEN ix' = ix + 1 /\ pc' = "discretize"
       ELSE ix' = ix /\ pc' = "save"
    /\ UNCHANGED << rho_s, clay_cutoff, log_transform, gs_freq_all,
                    bins_gs, freq_gs, csv_out >>

\* the loop cell raises and the execution of the notebook stops there
LoopRaises ==
    /\ pc = "discretize"
    /\ loop_raises
    /\ pc' = "error"
    /\ UNCHANGED << rho_s, clay_cutoff, log_transform, df, df_columns,
                    gs_freq_all, bins_gs, freq_gs, ix, csv_out >>

\* df.to_csv(fn_out): index=True by default, so the file starts with a
\* column without a name that holds the index 0, 1, ... of each row
to_csv(d, cols) ==
    [written |-> TRUE,
     columns |-> << index_label >> \o cols,
     rows    |-> [k \in 1 .. Len(d) |-> (index_label :> k - 1) @@ d[k]]]

SaveCsv ==
    /\ pc = "save"
    /\ csv_out' = to_csv(df, df_columns)
    /\ pc' = "done"
    /\ UNCHANGED << rho_s, clay_cutoff, log_transform, df, df_columns,
                    gs_freq_all, bins_gs, freq_gs, ix >>

Next == Discretize \/ LoopRaises \/ Integrate \/ SaveCsv

Spec == Init /\ [][Next]_vars

(* ---------------------------------------------------------------------- *)
(* Vocabulary of the properties                                           *)
(* ---------------------------------------------------------------------- *)

\* number of grid points of the model's grid and of the notebook's grid
GridLen == (AxisHigh - AxisLow) * StepsPerDecade
NotebookGridLen ==
    Len(arange(AxisLow * NotebookStepsPerDecade,
               AxisHigh * NotebookStepsPerDecade, 1))

\* the grid in linear size units, 10^grid, before any midpointing
LinearGrid == [i \in 1 .. Len(log_grid) |-> Pow10(log_grid[i])]

\* 10^AxisHigh (100 mm) in size units
AxisHighLinear == 2 * Scale * Pow(10, AxisHigh - AxisLow)

\* the number of rows whose result has been stored
RowsDone == IF pc \in {"save", "done"} THEN Len(df) ELSE ix - 1

\* the discretizer has just returned for row ix
Discretized == pc = "integrate"

\* the integrator has just stored the result of row RowsDone, computed from
\* the bins_gs and freq_gs still held by the notebook
Integrated == pc # "integrate" /\ RowsDone >= 1

ValidRow(k) == df[k].grain_size_stdev > 0 /\ df[k].grain_size_mean # NaN

NoNaN(a) == \A i \in 1 .. Len(a) : a[i] # NaN

ss_of(k) == df[k].specific_surface_granular_fraction

RECURSIVE SumOver(_, _, _)
\* sum over the index set S of floor(f[i] * DivScale / g[i])
SumOver(S, f, g) ==
    IF S = {} THEN 0
    ELSE LET i == CHOOSE j \in S : TRUE
         IN  (f[i] * DivScale) \div g[i] + SumOver(S \ {i}, f, g)

RECURSIVE Total(_, _)
Total(S, f) ==
    IF S = {} THEN 0
    ELSE LET i == CHOOSE j \in S : TRUE IN f[i] + Total(S \ {i}, f)

\* a >= b for two fractions with positive denominators
RatGE(a, b) ==
    LET l == (a.den \div GCD(a.den, b.den)) * b.den
    IN  a.num * (l \div a.den) >= b.num * (l \div b.den)

\* the CDF at grid point i for row k, on the axis the mode evaluates it on:
\* the log10 grid values in log mode, the linear values 10^grid otherwise
cdf_at(k, i) ==
    norm_cdf1(IF log_transform THEN log_grid[i] ELSE LinearGrid[i],
              df[k].grain_size_mean, df[k].grain_size_stdev)

(* ---------------------------------------------------------------------- *)
(* C1                                                                     *)
(* ---------------------------------------------------------------------- *)

\* C1: after the discretizer returns for a row with stdev > 0, every bin
\* whose representative size is strictly below the caller's clay_cutoff has
\* mass exactly 0.
C1_BelowCallerCutoffIsZero ==
    (Discretized /\ ValidRow(ix)) =>
        \A i \in 1 .. Len(bins_gs) :
            bins_gs[i] < clay_cutoff => freq_gs[i] = 0

(* ---------------------------------------------------------------------- *)
(* C2                                                                     *)
(* ---------------------------------------------------------------------- *)

\* C2: the stored result of the integrator is exactly 6 / rho_s times the
\* sum over all bins of mass / size, each bin counted once, none skipped.
C2_IntegratorIsFullSum ==
    (Integrated /\ NoNaN(freq_gs)) =>
        /\ Len(bins_gs) = Len(freq_gs)
        /\ ss_of(RowsDone) =
              Rat(6 * SumOver(1 .. Len(bins_gs), freq_gs, bins_gs), rho_s)

\* a result to which the last bin contributes
C2_Witness ==
    /\ Integrated /\ NoNaN(freq_gs)
    /\ Len(freq_gs) >= 2
    /\ freq_gs[Len(freq_gs)] > 0
    /\ \E i \in 1 .. Len(freq_gs) - 1 : freq_gs[i] > 0
    /\ ss_of(RowsDone).num > 0

(* ---------------------------------------------------------------------- *)
(* C3                                                                     *)
(* ---------------------------------------------------------------------- *)

\* the per-bin mass of row k before the clay fraction is removed
freq_before_truncation(k) ==
    convert_to_frequency(norm_cdf(gs_sim(log_transform),
                                  df[k].grain_size_mean,
                                  df[k].grain_size_stdev))

\* C3: before clay truncation the mass of bin 0 is CDF(grid[0]) and the mass
\* of every bin i >= 1 is CDF(grid[i]) - CDF(grid[i-1]) of the original CDF
\* values; the masses add up to CDF(grid[last]) and are not renormalized, and
\* the bins the truncation leaves alone return exactly that mass.
C3_MassIsCdfDifference ==
    (Discretized /\ ValidRow(ix)) =>
        LET pre == freq_before_truncation(ix) IN
        /\ Len(pre) = Len(log_grid)
        /\ pre[1] = cdf_at(ix, 1)
        /\ \A i \in 2 .. Len(pre) : pre[i] = cdf_at(ix, i) - cdf_at(ix, i - 1)
        /\ Total(1 .. Len(pre), pre) = cdf_at(ix, Len(pre))
        /\ \A i \in 1 .. Len(pre) :
              bins_gs[i] >= ClayLiteral => freq_gs[i] = pre[i]

\* mass in two neighbouring bins i >= 1 and mass lost above the upper bound
C3_Witness ==
    /\ Discretized /\ ValidRow(ix)
    /\ \E i \in 2 .. Len(freq_gs) - 1 : freq_gs[i] > 0 /\ freq_gs[i + 1] > 0
    /\ cdf_at(ix, Len(log_grid)) < PhiScale

(* ---------------------------------------------------------------------- *)
(* C4                                                                     *)
(* ---------------------------------------------------------------------- *)

\* C4: in both modes the returned size of bin 0 is the raw grid value
\* 10^grid[0] and the size of every bin i >= 1 is the midpoint of the
\* original values 10^grid[i] and 10^grid[i-1].
C4_SizesAreMidpointsOfOriginalGrid ==
    Discretized =>
        /\ Len(bins_gs) = Len(LinearGrid)
        /\ bins_gs[1] = LinearGrid[1]
        /\ \A i \in 2 .. Len(bins_gs) :
              2 * bins_gs[i] = LinearGrid[i] + LinearGrid[i - 1]

\* linear mode, where bins_gs is the same array as gs_sim, with three bins
C4_Witness ==
    /\ Discretized /\ ~log_transform
    /\ Len(bins_gs) >= 3
    /\ bins_gs[3] > bins_gs[2]

(* ---------------------------------------------------------------------- *)
(* C5                                                                     *)
(* ---------------------------------------------------------------------- *)

\* C5: the discretizer returns sizes and masses of the length of the grid
\* for every mean, stdev, cutoff and mode (600 for the notebook's grid);
\* entries below the threshold are zeroed in place, so mass i belongs to
\* size i.
C5_FixedLength ==
    /\ NotebookGridLen = 600
    /\ Len(log_grid) = GridLen
    /\ \A k \in 1 .. Len(gs_freq_all) : Len(gs_freq_all[k]) = GridLen
    /\ Discretized =>
          /\ Len(bins_gs) = GridLen
          /\ Len(freq_gs) = GridLen
          /\ LET pre == freq_before_truncation(ix) IN
             \A i \in 1 .. GridLen : freq_gs[i] \in {0, pre[i]}

\* a returned distribution in which a bin was zeroed and a bin was kept
C5_Witness ==
    /\ Discretized /\ ValidRow(ix)
    /\ LET pre == freq_before_truncation(ix) IN
       \E i \in 1 .. Len(freq_gs) : pre[i] > 0 /\ freq_gs[i] = 0
    /\ \E i \in 1 .. Len(freq_gs) : freq_gs[i] > 0

(* ---------------------------------------------------------------------- *)
(* C6                                                                     *)
(* ---------------------------------------------------------------------- *)

\* C6: for stdev > 0 every returned size is > 0, the sizes are strictly
\* ascending (bin 0 to bin 1 included), and every mass lies in [0, 1].
C6_WellFormedDistribution ==
    (Discretized /\ ValidRow(ix)) =>
        /\ \A i \in 1 .. Len(bins_gs) : bins_gs[i] > 0
        /\ \A i \in 1 .. Len(bins_gs) - 1 : bins_gs[i] < bins_gs[i + 1]
        /\ \A i \in 1 .. Len(freq_gs) : freq_gs[i] >= 0 /\ freq_gs[i] <= PhiScale

\* a distribution with mass spread over at least two bins
C6_Witness ==
    /\ Discretized /\ ValidRow(ix)
    /\ \E i, j \in 1 .. Len(freq_gs) :
          i < j /\ freq_gs[i] > 0 /\ freq_gs[j] > 0 /\ freq_gs[i] # freq_gs[j]

(* ---------------------------------------------------------------------- *)
(* C7                                                                     *)
(* ---------------------------------------------------------------------- *)

\* C7: when the configured cutoff exceeds 10^AxisHigh (100 mm), the stored
\* specific surface of every row with stdev > 0 is exactly 0.
C7_CutoffAboveAxisGivesZero ==
    clay_cutoff > AxisHighLinear =>
        \A k \in 1 .. RowsDone :
            ValidRow(k) => ss_of(k) = Rat(0, 1)

(* ---------------------------------------------------------------------- *)
(* C8                                                                     *)
(* ---------------------------------------------------------------------- *)

\* C8: on the distribution just integrated, the integrator's result with
\* density 2 * rho_s is exactly half the stored result and with 3 * rho_s a
\* third of it, and the discretizer returns the same sizes and masses
\* when it is passed another density.
C8_InverselyProportionalToDensity ==
    (Integrated /\ NoNaN(freq_gs)) =>
        /\ \A m \in {2, 3} :
              calculate_specific_surface_discrete(bins_gs, freq_gs, m * rho_s)
                 = Rat(ss_of(RowsDone).num, m * ss_of(RowsDone).den)
        /\ \A d \in Densities \ {rho_s} :
              generate_gs_distributions(df[RowsDone].grain_size_mean,
                                        df[RowsDone].grain_size_stdev,
                                        d, clay_cutoff, log_transform)
                 = [bins_gs |-> bins_gs, freq_gs |-> freq_gs]

\* a non-zero result
C8_Witness ==
    /\ Integrated /\ NoNaN(freq_gs)
    /\ ss_of(RowsDone).num > 0
    /\ ss_of(RowsDone).den > 1

(* ---------------------------------------------------------------------- *)
(* C9                                                                     *)
(* ---------------------------------------------------------------------- *)

\* the smallest cutoff and the smallest valid stdev of the runs
SmallestCutoff == CHOOSE c \in Cutoffs : \A e \in Cutoffs : c <= e
SmallStdev ==
    LET valid == {p[2] : p \in Stats(log_transform)} \ {0, NaN, NonNumeric}
    IN  CHOOSE s \in valid : \A t \in valid : s <= t

\* C9: with the cutoff taken towards 0 and a small fixed stdev, the specific
\* surface is non-increasing in the mean: a row with the smaller mean never
\* has the smaller result.
C9_MonotoneInMean ==
    clay_cutoff = SmallestCutoff =>
        \A j, k \in 1 .. RowsDone :
            ( /\ ValidRow(j) /\ ValidRow(k)
              /\ df[j].grain_size_stdev = SmallStdev
              /\ df[k].grain_size_stdev = SmallStdev
              /\ df[j].grain_size_mean <= df[k].grain_size_mean )
            => RatGE(ss_of(j), ss_of(k))

(* ---------------------------------------------------------------------- *)
(* C10                                                                    *)
(* ---------------------------------------------------------------------- *)

\* C10: two processed rows with the same mean and stdev have the same masses
\* and the same specific surface, whatever was processed in between, and the
\* configuration and the inputs of the rows are what they were at the start
\* (every stored result is the value of the two functions on its own row).
C10_Deterministic ==
    /\ \A j, k \in 1 .. RowsDone :
          ( /\ df[j].grain_size_mean = df[k].grain_size_mean
            /\ df[j].grain_size_stdev = df[k].grain_size_stdev )
          => /\ ss_of(j) = ss_of(k)
             /\ gs_freq_all[j] = gs_freq_all[k]
    /\ \A j, k \in 1 .. Len(gs_freq_all) :
          ( /\ df[j].grain_size_mean = df[k].grain_size_mean
            /\ df[j].grain_size_stdev = df[k].grain_size_stdev )
          => gs_freq_all[j] = gs_freq_all[k]
    /\ Discretized => bins_gs = middle_of_bin(LinearGrid)

\* the same valid row processed twice with another row in between
C10_Witness ==
    /\ pc = "done" /\ Len(df) >= 3
    /\ df[1].grain_size_mean = df[3].grain_size_mean
    /\ df[1].grain_size_stdev = df[3].grain_size_stdev
    /\ df[2].grain_size_mean # df[1].grain_size_mean
    /\ ValidRow(1)
    /\ ss_of(1).num > 0

(* ---------------------------------------------------------------------- *)
(* C11                                                                    *)
(* ---------------------------------------------------------------------- *)

\* both required columns are in the dataset
ColumnsPresent ==
    /\ gs_mean_column \in ColumnSet(df_columns)
    /\ gs_std_column \in ColumnSet(df_columns)

\* the columns the dataset was read with
InputColumns ==
    LET is_input(c) == c # ss_column IN SelectSeq(df_columns, is_input)

\* C11: the file written for a dataset of N rows has N rows, the columns of
\* the input in the same order with the same values, and exactly one more
\* column, specific_surface_granular_fraction, appended after them.
C11_OutputIsInputPlusOneColumn ==
    (ColumnsPresent /\ csv_out.written) =>
        /\ Len(csv_out.rows) = Len(df)
        /\ csv_out.columns = InputColumns \o << ss_column >>
        /\ \A k \in 1 .. Len(df) :
              \A c \in ColumnSet(InputColumns) : csv_out.rows[k][c] = df[k][c]

(* ---------------------------------------------------------------------- *)
(* C12                                                                    *)
(* ---------------------------------------------------------------------- *)

\* row k has a parameter that is invalid: a stdev <= 0, an empty cell or a
\* cell that is not a number
InvalidRow(k) ==
    \/ df[k].grain_size_mean \in {NaN, NonNumeric}
    \/ df[k].grain_size_stdev <= 0

\* C12: in a dataset that has both columns, a row with an invalid parameter
\* does not abort the run: the loop never raises, and when it has ended every
\* invalid row has the result nan and every other row has a number.
C12_InvalidRowDoesNotAbort ==
    ColumnsPresent =>
        /\ pc # "error"
        /\ pc \in {"save", "done"} =>
              \A k \in 1 .. Len(df) :
                  /\ InvalidRow(k) => ss_of(k) = NaNss
                  /\ ~InvalidRow(k) => ss_of(k) # NaNss

(* ---------------------------------------------------------------------- *)
(* C13                                                                    *)
(* ---------------------------------------------------------------------- *)

\* C13: when the dataset lacks a required column the run fails before any
\* row is processed, whatever the number of rows (0 included): no mass
\* vector is collected, no result column is created, nothing is written and
\* the run does not complete.
C13_MissingColumnFailsFast ==
    ~ColumnsPresent =>
        /\ gs_freq_all = << >>
        /\ ss_column \notin ColumnSet(df_columns)
        /\ ~csv_out.written
        /\ pc # "done"

(* ---------------------------------------------------------------------- *)
(* C14                                                                    *)
(* ---------------------------------------------------------------------- *)

\* what the two functions give for the mean and stdev of row k under the
\* configuration of the run
distribution_of(k) ==
    generate_gs_distributions(df[k].grain_size_mean, df[k].grain_size_stdev,
                              rho_s, clay_cutoff, log_transform)

result_of(k) ==
    LET r == distribution_of(k)
    IN  calculate_specific_surface_discrete(r.bins_gs, r.freq_gs, rho_s)

\* C14: the result stored on a row is the value of the two functions on that
\* row's own mean and stdev and the run's configuration, whatever the other
\* rows are and wherever the row stands; a row not yet processed holds no
\* number; the file written has the rows in the order of the dataset, each
\* with its own inputs and its own result.
C14_ResultBelongsToOwnRow ==
    /\ \A k \in 1 .. RowsDone :
          (k = RowsDone \/ pc = "done") => ss_of(k) = result_of(k)
    /\ \A k \in RowsDone + 1 .. Len(df) :
          ss_column \in DOMAIN df[k] => ss_of(k) = NaNss
    /\ (csv_out.written /\ ColumnsPresent) =>
          \A k \in 1 .. Len(df) :
              /\ csv_out.rows[k][index_label] = k - 1
              /\ csv_out.rows[k][gs_mean_column] = df[k].grain_size_mean
              /\ csv_out.rows[k][gs_std_column] = df[k].grain_size_stdev
              /\ csv_out.rows[k][ss_column] = ss_of(k)

\* a written dataset whose first two rows are valid and differ in result
C14_Witness ==
    /\ csv_out.written /\ Len(df) >= 2
    /\ ValidRow(1) /\ ValidRow(2)
    /\ ss_of(1).num > 0 /\ ss_of(2).num > 0
    /\ ss_of(1) # ss_of(2)

(* ---------------------------------------------------------------------- *)
(* C15                                                                    *)
(* ---------------------------------------------------------------------- *)

\* C15: in a dataset that has both columns the loop calls the discretizer
\* once per row and then the integrator once, on the sizes and masses the
\* discretizer returned for that row; it ends having visited every row, and
\* then every row has a result and gs_freq_all has one entry per row, in
\* row order.
C15_LoopVisitsEveryRowOnce ==
    ColumnsPresent =>
        /\ pc # "error"
        /\ pc = "discretize" => Len(gs_freq_all) = ix - 1
        /\ pc = "integrate" =>
              /\ Len(gs_freq_all) = ix
              /\ gs_freq_all[ix] = freq_gs
              /\ [bins_gs |-> bins_gs, freq_gs |-> freq_gs] = distribution_of(ix)
        /\ pc \in {"save", "done"} =>
              /\ Len(gs_freq_all) = Len(df)
              /\ \A k \in 1 .. Len(df) :
                    /\ ss_column \in DOMAIN df[k]
                    /\ gs_freq_all[k] = distribution_of(k).freq_gs

(* ---------------------------------------------------------------------- *)
(* C16                                                                    *)
(* ---------------------------------------------------------------------- *)

\* the axis the CDF is evaluated on: the log10 grid values in log mode, the
\* linear values 10^grid otherwise
mode_axis == IF log_transform THEN log_grid ELSE LinearGrid

\* a log-space (mean, stdev): 10^-2 m, 1 decade
LogModePair == << -2 * LogUnit, LogUnit >>

\* linear stdevs that may stand for a log-space stdev: 1, 2 and 4.6 times
\* a power of ten between 10^-7 and 10^-1 m
LinearStdevCandidates ==
    { m * Scale * Pow(10, k) : m \in {2, 4, 9}, k \in 0 .. AxisHigh - AxisLow }

\* C16: the CDF is evaluated on the log10 grid values with (mean, stdev) as
\* given when log_transform is true and on the linear values 10^grid when it
\* is false; and for the log-space pair LogModePair, log mode gives masses
\* and a result that linear mode does not give on the linear mean 10^mean,
\* whatever the linear stdev.
C16_ModesAreDifferentAlgorithms ==
    (Discretized /\ ValidRow(ix)) =>
        LET m == df[ix].grain_size_mean
            s == df[ix].grain_size_stdev
        IN
        /\ \A i \in 1 .. Len(freq_gs) :
              bins_gs[i] >= ClayLiteral =>
                  freq_gs[i] = norm_cdf1(mode_axis[i], m, s)
                               - (IF i = 1 THEN 0
                                  ELSE norm_cdf1(mode_axis[i - 1], m, s))
        /\ (log_transform /\ << m, s >> = LogModePair) =>
              \A t \in LinearStdevCandidates :
                  LET lin == generate_gs_distributions(Pow10(m), t, rho_s,
                                                       clay_cutoff, FALSE)
                  IN  /\ lin.freq_gs # freq_gs
                      /\ calculate_specific_surface_discrete(
                             lin.bins_gs, lin.freq_gs, rho_s)
                         # calculate_specific_surface_discrete(
                               bins_gs, freq_gs, rho_s)

\* log mode has just discretized the pair LogModePair
C16_Witness ==
    /\ Discretized /\ log_transform
    /\ << df[ix].grain_size_mean, df[ix].grain_size_stdev >> = LogModePair
    /\ \E i \in 1 .. Len(freq_gs) : freq_gs[i] > 0

(* ---------------------------------------------------------------------- *)
(* C17                                                                    *)
(* ---------------------------------------------------------------------- *)

\* the midpointed 10^grid values, in linear size units
GridSizes ==
    [i \in 1 .. Len(LinearGrid) |->
        IF i = 1 THEN LinearGrid[1]
        ELSE (LinearGrid[i] + LinearGrid[i - 1]) \div 2]

\* C17: once the discretizer has been called, the sizes the notebook holds
\* are the midpointed 10^grid values whatever the row, the cutoff and the
\* mode, so they are the sizes of every collected mass vector.
C17_SizesDependOnGridOnly ==
    Len(gs_freq_all) >= 1 =>
        /\ bins_gs = GridSizes
        /\ \A k \in 1 .. Len(gs_freq_all) :
              Len(gs_freq_all[k]) = Len(GridSizes)

\* two rows with different parameters and different masses were collected
C17_Witness ==
    /\ Len(gs_freq_all) >= 2
    /\ df[1].grain_size_mean # df[2].grain_size_mean
    /\ df[1].grain_size_stdev # df[2].grain_size_stdev
    /\ gs_freq_all[1] # gs_freq_all[2]
    /\ NoNaN(gs_freq_all[1]) /\ NoNaN(gs_freq_all[2])

(* ---------------------------------------------------------------------- *)
(* C18                                                                    *)
(* ---------------------------------------------------------------------- *)

\* C18: the bins whose mass the truncation forces to 0 are a prefix of the
\* sequence; every bin at or above the truncation threshold keeps its
\* finite-differenced mass; the sizes are the sizes before truncation; the
\* remaining mass is at most CDF(grid[last]), which is at most 1.
C18_TruncationTouchesOnlyAPrefix ==
    (Discretized /\ ValidRow(ix)) =>
        LET pre    == freq_before_truncation(ix)
            below  == { i \in 1 .. Len(bins_gs) : bins_gs[i] < ClayLiteral }
            last   == Len(log_grid)
        IN
        /\ \E n \in 0 .. Len(bins_gs) : below = 1 .. n
        /\ \A i \in below : freq_gs[i] = 0
        /\ \A i \in (1 .. Len(bins_gs)) \ below : freq_gs[i] = pre[i]
        /\ bins_gs = middle_of_bin(real_units(gs_sim(log_transform),
                                              log_transform))
        /\ Total(1 .. Len(freq_gs), freq_gs) <= cdf_at(ix, last)
        /\ cdf_at(ix, last) <= PhiScale

\* mass was removed below the threshold and mass remains above it
C18_Witness ==
    /\ Discretized /\ ValidRow(ix)
    /\ LET pre == freq_before_truncation(ix) IN
       \E i \in 1 .. Len(freq_gs) : pre[i] > 0 /\ freq_gs[i] = 0
    /\ Total(1 .. Len(freq_gs), freq_gs) > 0
    /\ Total(1 .. Len(freq_gs), freq_gs) < cdf_at(ix, Len(log_grid))

====
